---- MODULE Spec2Model ----
(***************************************************************************)
(* A model of the notebook "Instrumental Variables": the two helper        *)
(* functions coefficient_to_odds_ratio and ate_odds_ratio, and the cells   *)
(* of the pipeline (load, summary statistics, ATE, naive regression,       *)
(* two-stage estimator, odds-ratio transforms) run top to bottom in one    *)
(* kernel.                                                                 *)
(*                                                                         *)
(* Numbers.  The notebook computes with Python floats (IEEE-754 binary64,  *)
(* round to nearest, ties to even).  The model keeps that arithmetic and   *)
(* reduces its size: a float is an integer count of units of 2^-FracBits   *)
(* whose magnitude has at most Prec significant bits, and every operation  *)
(* rounds its exact result to the nearest such number, ties to even.       *)
(* binary64 is the instance Prec = 53.                                     *)
(***************************************************************************)
EXTENDS Integers, Sequences, FiniteSets, TLC

VARIABLES
    cell,        \* the next cell of the notebook to run / position of the kernel
    fn,          \* helper specification: the helper function under call
    args,        \* helper specification: its arguments
    stdout,      \* what this run has printed and displayed so far, in order
    exc,         \* the exception that ended the last cell, or "none"
    ret,         \* what the last helper call returned ("unset" before it returns)
    odds,        \* the helper's local variable odds: <<>> unassigned, <<v>> assigned
    file,        \* the rows of colvoucher.sas7bdat
    voucher_df,  \* the kernel's name voucher_df: <<>> unbound, <<table>> bound
    ate,         \* the kernel's name ate: <<>> unbound, <<v>> bound
    result,      \* the kernel's name result: <<>> unbound, <<fit>> bound
    run,         \* how many times the pipeline has been started in this kernel
    earlier,     \* what each finished run printed, and how it ended
    glm_fits,    \* the fits statsmodels has been asked for, with their outcomes
    fitted_writes, \* assignments to the column use_fin_aid_fitted in this run
    fitted_reads   \* reads of the column use_fin_aid_fitted in this run

helper == <<fn, args, ret, odds>>

kernel == <<file, voucher_df, ate, result, run, earlier, glm_fits,
            fitted_writes, fitted_reads>>

vars == <<cell, stdout, exc, helper, kernel>>

----------------------------------------------------------------------------
(* Bounds of the model *)

Prec == 4          \* significant bits of a float (binary64: 53)
FracBits == 6      \* the smallest positive float is 2^-FracBits
CoefRange == 6     \* coefficients are drawn from [-CoefRange, CoefRange]
MaxRows == 2       \* rows of the input file
MaxRuns == 2       \* runs of the pipeline in one kernel

----------------------------------------------------------------------------
(* Python float arithmetic *)

One == 2^FracBits

Abs(x) == IF x < 0 THEN -x ELSE x

\* a/b for a >= 0, b > 0, rounded to the nearest integer, ties to even
RoundHalfEven(a, b) ==
    LET q == a \div b
        r == a % b
    IN  IF 2 * r > b \/ (2 * r = b /\ q % 2 = 1) THEN q + 1 ELSE q

\* the number of low bits a magnitude q loses to fit Prec significant bits
RECURSIVE DropBits(_)
DropBits(q) == IF q < 2^Prec THEN 0 ELSE 1 + DropBits(q \div 2)

\* the float nearest to the rational a/b (b > 0), in units
RoundFloat(a, b) ==
    LET k == DropBits(Abs(a) \div b)
        m == RoundHalfEven(Abs(a), b * 2^k) * 2^k
    IN  IF a < 0 THEN -m ELSE m

IsFloat(n) == RoundFloat(n, 1) = n

float_sub(x, y) == RoundFloat(x - y, 1)

float_add(x, y) == RoundFloat(x + y, 1)

float_mul(x, y) == RoundFloat(x * y, One)

\* the decimal literal num/den read as a float
Literal(num, den) == RoundFloat(num * One, den)

\* x / y of two floats, y # 0 (Python raises ZeroDivisionError on y = 0,
\* which the callers test before dividing)
float_truediv(x, y) ==
    IF y < 0 THEN RoundFloat(-(x * One), -y) ELSE RoundFloat(x * One, y)

----------------------------------------------------------------------------
(* math.exp *)

\* e^x is evaluated in fixed point with ExpGuard fractional bits, then rounded
\* to a float
ExpGuard == Prec + 8

ExpScale == 2^ExpGuard

\* the Taylor series of e^(n/One) from the term `term` = x^(k-1)/(k-1)! on
RECURSIVE ExpSeries(_, _, _)
ExpSeries(n, term, k) ==
    IF term = 0 THEN 0
    ELSE term + ExpSeries(n, (term * n) \div (One * k), k + 1)

\* e^(c/One) scaled by ExpScale, for -FracBits < c/One < Prec
ExpFixed(c) ==
    IF c >= 0 THEN ExpSeries(c, ExpScale, 1)
    ELSE RoundHalfEven(ExpScale * ExpScale, ExpSeries(-c, ExpScale, 1))

\* the largest float is just below 2^(Prec+1): one binade above the largest
\* odds a probability below 1 can have, 2^Prec - 1
Overflows(x) == x >= 2^(Prec + 1) * One

\* math.exp(c): the float nearest e^c; OverflowError ("math range error") when
\* that is beyond the largest float, 0.0 when it is below half the smallest
\* (e^Prec > 2^(Prec+1) and e^-FracBits < 2^-(FracBits+1))
math_exp(c) ==
    IF c >= Prec * One THEN [raised |-> TRUE, value |-> 0]
    ELSE IF -c >= FracBits * One THEN [raised |-> FALSE, value |-> 0]
    ELSE LET v == RoundFloat(ExpFixed(c), 2^(ExpGuard - FracBits))
         IN  IF Overflows(v) THEN [raised |-> TRUE, value |-> 0]
             ELSE [raised |-> FALSE, value |-> v]

----------------------------------------------------------------------------
(* str.format *)

\* "{:2f}": minimum width 2, the default precision of the f presentation
FormatPrecision == 6

\* "{:2f}".format(x), x >= 0: x in decimal with FormatPrecision digits after the
\* point, correctly rounded (ties to even); the result is the digits read as a
\* count of 10^-FormatPrecision
format_2f(x) ==
    IF FracBits >= FormatPrecision
    THEN RoundHalfEven(x * 5^FormatPrecision, 2^(FracBits - FormatPrecision))
    ELSE x * 5^FormatPrecision * 2^(FormatPrecision - FracBits)

\* "{}".format(x) is repr(x): the shortest decimal that reads back as x, so the
\* printed text determines the float and the float the text; the model keeps
\* the float
format_repr(x) == x

----------------------------------------------------------------------------
(* The helper functions *)

Printed(text, value) == [text |-> text, value |-> value]

\* a call that ended by raising: nothing printed, nothing returned
Raised(e, local) == [out |-> <<>>, exc |-> e, ret |-> "unset", odds |-> local]

\* a call that printed one line and fell off the end of the function body
PrintedAndReturned(line, local) ==
    [out |-> <<line>>, exc |-> "none", ret |-> "None", odds |-> <<local>>]

\* math.exp with the sign of its argument lost
math_exp_negated(c) == math_exp(-c)

\* math.expm1 in the place of math.exp
math_expm1(c) ==
    LET e == math_exp(c)
    IN  IF e.raised THEN e ELSE [raised |-> FALSE, value |-> e.value - One]

\* coefficient_to_odds_ratio through a given exponential
CoefficientToOddsRatioWith(e) ==
    IF e.raised THEN Raised("OverflowError", <<>>)
    ELSE PrintedAndReturned(
             Printed("Those using financial aid are {:2f} times more likely to finish the 8th grade!",
                     format_2f(e.value)),
             e.value)

coefficient_to_odds_ratio_negated(coefficient) ==
    CoefficientToOddsRatioWith(math_exp_negated(coefficient))

coefficient_to_odds_ratio_expm1(coefficient) ==
    CoefficientToOddsRatioWith(math_expm1(coefficient))

coefficient_to_odds_ratio(coefficient) ==
    LET e == math_exp(coefficient)
    IN  IF e.raised THEN Raised("OverflowError", <<>>)
        ELSE PrintedAndReturned(
                 Printed("Those using financial aid are {:2f} times more likely to finish the 8th grade!",
                         format_2f(e.value)),
                 e.value)

\* ate_odds_ratio with its two arguments taken in the other order
ate_odds_ratio_swapped(prob0, prob1) ==
    LET d1 == float_sub(One, prob1)
        d0 == float_sub(One, prob0)
    IN  IF d0 = 0 THEN Raised("ZeroDivisionError", <<>>)
        ELSE IF d1 = 0 THEN Raised("ZeroDivisionError", <<>>)
        ELSE LET v == float_sub(float_truediv(prob0, d0), float_truediv(prob1, d1))
             IN  PrintedAndReturned(Printed("Odds ratio: {}", format_repr(v)), v)

\* ate_odds_ratio with the odds upside down, (1-p)/p
ate_odds_ratio_inverted(prob0, prob1) ==
    IF prob1 = 0 \/ prob0 = 0 THEN Raised("ZeroDivisionError", <<>>)
    ELSE LET v == float_sub(float_truediv(float_sub(One, prob1), prob1),
                            float_truediv(float_sub(One, prob0), prob0))
         IN  PrintedAndReturned(Printed("Odds ratio: {}", format_repr(v)), v)

\* ate_odds_ratio dividing as numpy.float64 does: x/0 is inf (nan for inf - inf)
\* with a warning, and the line is printed
ate_odds_ratio_numpy(prob0, prob1) ==
    LET d1 == float_sub(One, prob1)
        d0 == float_sub(One, prob0)
    IN  IF d1 = 0 /\ d0 = 0
        THEN [out |-> <<Printed("Odds ratio: {}", "nan")>>, exc |-> "none",
              ret |-> "None", odds |-> <<"nan">>]
        ELSE IF d1 = 0 \/ d0 = 0
        THEN [out |-> <<Printed("Odds ratio: {}", "inf")>>, exc |-> "none",
              ret |-> "None", odds |-> <<"inf">>]
        ELSE LET v == float_sub(float_truediv(prob1, d1), float_truediv(prob0, d0))
             IN  PrintedAndReturned(Printed("Odds ratio: {}", format_repr(v)), v)

\* ate_odds_ratio refusing every degenerate probability, 0 as well as 1
ate_odds_ratio_guarded(prob0, prob1) ==
    LET d1 == float_sub(One, prob1)
        d0 == float_sub(One, prob0)
    IN  IF prob0 = 0 \/ prob1 = 0 \/ d0 = 0 \/ d1 = 0
        THEN Raised("ZeroDivisionError", <<>>)
        ELSE LET v == float_sub(float_truediv(prob1, d1), float_truediv(prob0, d0))
             IN  PrintedAndReturned(Printed("Odds ratio: {}", format_repr(v)), v)

ate_odds_ratio(prob0, prob1) ==
    LET d1 == float_sub(One, prob1)
        d0 == float_sub(One, prob0)
    IN  IF d1 = 0 THEN Raised("ZeroDivisionError", <<>>)
        ELSE IF d0 = 0 THEN Raised("ZeroDivisionError", <<>>)
        ELSE LET v == float_sub(float_truediv(prob1, d1), float_truediv(prob0, d0))
             IN  PrintedAndReturned(Printed("Odds ratio: {}", format_repr(v)), v)

----------------------------------------------------------------------------
(* The helpers called on arbitrary arguments *)

\* the floats in [0, 1]
Probabilities == {p \in 0..One : IsFloat(p)}

\* the floats in [-CoefRange, CoefRange]
Coefficients == {c \in (-(CoefRange * One))..(CoefRange * One) : IsFloat(c)}

InitKernel ==
    /\ voucher_df = <<>>
    /\ ate = <<>>
    /\ result = <<>>
    /\ run = 1
    /\ earlier = <<>>
    /\ glm_fits = {}
    /\ fitted_writes = 0
    /\ fitted_reads = 0

InitHelpers ==
    /\ cell = "call"
    /\ fn \in {"ate_odds_ratio", "coefficient_to_odds_ratio"}
    /\ args \in IF fn = "ate_odds_ratio"
                THEN Probabilities \X Probabilities
                ELSE {<<c>> : c \in Coefficients}
    /\ stdout = <<>>
    /\ exc = "none"
    /\ ret = "unset"
    /\ odds = <<>>
    /\ file = <<>>
    /\ InitKernel

Return(r) ==
    /\ stdout' = stdout \o r.out
    /\ exc' = r.exc
    /\ ret' = r.ret
    /\ odds' = r.odds
    /\ cell' = "returned"
    /\ UNCHANGED <<fn, args, kernel>>

CallAteOddsRatio ==
    /\ cell = "call"
    /\ fn = "ate_odds_ratio"
    /\ Return(ate_odds_ratio(args[1], args[2]))

CallCoefficientToOddsRatio ==
    /\ cell = "call"
    /\ fn = "coefficient_to_odds_ratio"
    /\ Return(coefficient_to_odds_ratio(args[1]))

NextHelpers == CallAteOddsRatio \/ CallCoefficientToOddsRatio

SpecHelpers == InitHelpers /\ [][NextHelpers]_vars

----------------------------------------------------------------------------
(* pandas: the observation table *)

BaseColumns == <<"id", "won_lottry", "male", "base_age", "finish8th", "use_fin_aid">>

Range(seq) == {seq[i] : i \in DOMAIN seq}

\* the rows of the file that voucher_df.head() displays
HeadRows ==
    << [id |-> 3, won_lottry |-> 1, male |-> 0, base_age |-> 11, finish8th |-> 1, use_fin_aid |-> 1],
       [id |-> 4, won_lottry |-> 0, male |-> 1, base_age |-> 11, finish8th |-> 1, use_fin_aid |-> 1],
       [id |-> 5, won_lottry |-> 0, male |-> 1, base_age |-> 11, finish8th |-> 1, use_fin_aid |-> 0],
       [id |-> 6, won_lottry |-> 0, male |-> 0, base_age |-> 9, finish8th |-> 0, use_fin_aid |-> 0],
       [id |-> 10, won_lottry |-> 1, male |-> 1, base_age |-> 11, finish8th |-> 1, use_fin_aid |-> 1] >>

\* a subject whose age, 11, was entered as 1
MistypedRow ==
    [id |-> 11, won_lottry |-> 1, male |-> 0, base_age |-> 1, finish8th |-> 1, use_fin_aid |-> 1]

SampleRows == Append(HeadRows, MistypedRow)

\* the input files of the model: up to MaxRows of those rows, each subject
\* (id) at most once, in any order; the file of no rows is one of them
Files ==
    {[i \in DOMAIN pick |-> SampleRows[pick[i]]] :
        pick \in {q \in UNION {[1..n -> DOMAIN SampleRows] : n \in 0..MaxRows} :
                     \A i, j \in DOMAIN q : i # j => q[i] # q[j]}}

\* pd.read_sas: a new table, one row per row of the file, every column float64
read_sas(f) ==
    [columns |-> BaseColumns,
     rows |-> [i \in DOMAIN f |-> [c \in Range(BaseColumns) |-> f[i][c] * One]]]

\* df.head(): the first five rows
head(df) == SubSeq(df.rows, 1, IF Len(df.rows) < 5 THEN Len(df.rows) ELSE 5)

\* the selection made with >= in the place of ==
where_at_least(df, column, value) ==
    [columns |-> df.columns,
     rows |-> SelectSeq(df.rows, LAMBDA r : r[column] >= value)]

\* df[df[column] == value]: a new table of the rows that match, in order
where(df, column, value) ==
    [columns |-> df.columns,
     rows |-> SelectSeq(df.rows, LAMBDA r : r[column] = value)]

\* the assignment made to the treatment column itself
setitem_use_fin_aid(df, column, values) ==
    [columns |-> df.columns,
     rows |-> [i \in DOMAIN df.rows |->
                  [c \in Range(df.columns) |->
                      IF c = "use_fin_aid" THEN values[i] ELSE df.rows[i][c]]]]

\* df[column] = values: the column is added after the others, or replaced
\* when the table has it; the other columns and the rows are kept
setitem(df, column, values) ==
    [columns |-> IF column \in Range(df.columns) THEN df.columns
                 ELSE Append(df.columns, column),
     rows |-> [i \in DOMAIN df.rows |->
                  [c \in Range(df.columns) \cup {column} |->
                      IF c = column THEN values[i] ELSE df.rows[i][c]]]]

RECURSIVE SumFloats(_)
SumFloats(vals) ==
    IF vals = <<>> THEN 0
    ELSE float_add(SumFloats(SubSeq(vals, 1, Len(vals) - 1)), vals[Len(vals)])

Least(vals) == CHOOSE v \in Range(vals) : \A w \in Range(vals) : v <= w

Greatest(vals) == CHOOSE v \in Range(vals) : \A w \in Range(vals) : v >= w

\* df.describe() for one column: count, mean, min and max (NaN, here <<>>,
\* for a column without rows); the standard deviation and the quartiles are
\* further functions of the same values
describe_column(vals) ==
    [count |-> Len(vals),
     mean |-> IF vals = <<>> THEN <<>>
              ELSE <<float_truediv(SumFloats(vals), Len(vals) * One)>>,
     min |-> IF vals = <<>> THEN <<>> ELSE <<Least(vals)>>,
     max |-> IF vals = <<>> THEN <<>> ELSE <<Greatest(vals)>>]

\* df.describe(): the statistics of every column of the table
describe(df) ==
    [c \in Range(df.columns) |->
        describe_column([i \in DOMAIN df.rows |-> df.rows[i][c]])]

----------------------------------------------------------------------------
(* statsmodels: smf.glm(formula, data, family=Binomial()).fit() *)

NaiveFormula == [endog |-> "finish8th", exog |-> <<"use_fin_aid", "male", "base_age">>]

Stage1Formula == [endog |-> "use_fin_aid", exog |-> <<"won_lottry", "male", "base_age">>]

Stage2Formula == [endog |-> "finish8th", exog |-> <<"use_fin_aid_fitted", "male", "base_age">>]

\* the columns a formula names
Names(formula) == {formula.endog} \cup Range(formula.exog)

\* patsy: the response and the design matrix (a column of ones for the
\* intercept, then the regressors) read from the table, row by row
dmatrices(formula, df) ==
    [i \in DOMAIN df.rows |->
        [y |-> df.rows[i][formula.endog],
         x |-> <<One>> \o [k \in DOMAIN formula.exog |-> df.rows[i][formula.exog[k]]]]]

\* the coefficient tables the notebook shows for its three fits
ReportedNaive ==
    <<Literal(42496, 10000), Literal(5773, 10000), -Literal(4192, 10000), -Literal(2967, 10000)>>

ReportedStage1 ==
    <<Literal(3455, 10000), Literal(35514, 10000), -Literal(1622, 10000), -Literal(1184, 10000)>>

ReportedStage2 ==
    <<Literal(40756, 10000), Literal(7743, 10000), -Literal(4175, 10000), -Literal(2919, 10000)>>

\* What a fit can end in.  The iteration that estimates the coefficients is
\* the library's; the model takes the estimate to be a function of the
\* formula and the design matrix (glm_fits records its value where it has
\* been asked for) and lets it be any of a few coefficient vectors, or
\* PerfectSeparationError.  fit() returns its last iterate also when the
\* iteration stops at its limit (maxiter, 100) without having converged: the
\* results object then has converged = False (one vector stands for such an
\* iterate).
FitOutcomes ==
    {[error |-> "PerfectSeparationError", converged |-> FALSE, params |-> <<>>],
     [error |-> "none", converged |-> FALSE, params |-> ReportedNaive]} \cup
    {[error |-> "none", converged |-> TRUE, params |-> b] :
        b \in {ReportedNaive, ReportedStage1, ReportedStage2}}

\* the same fit asked for again gives the same outcome
Consistent(key, o) == \A p \in glm_fits : p[1] = key => p[2] = o

\* numpy.exp: inf, with a warning, where math.exp raises OverflowError
np_exp(c) ==
    LET e == math_exp(c)
    IN  [inf |-> e.raised, value |-> e.value]

\* the inverse of the log link, np.exp(z), in the place of the logit's
log_inverse(z) ==
    LET t == np_exp(z)
    IN  IF t.inf THEN 2^(Prec + 1) * One ELSE t.value

\* the inverse of the logit link, 1. / (1. + np.exp(-z))
logit_inverse(z) ==
    LET t == np_exp(-z)
    IN  IF t.inf THEN 0 ELSE float_truediv(One, float_add(One, t.value))

\* np.dot(x, params) for one row of the design matrix
RECURSIVE dot(_, _)
dot(x, params) ==
    IF x = <<>> THEN 0
    ELSE float_add(dot(SubSeq(x, 1, Len(x) - 1), SubSeq(params, 1, Len(x) - 1)),
                   float_mul(x[Len(x)], params[Len(x)]))

\* the fitted model: its formula, its design matrix, its coefficients and
\* whether the iteration converged
GLMResults(formula, design, o) ==
    [formula |-> formula, exog |-> [i \in DOMAIN design |-> design[i].x],
     params |-> o.params, converged |-> o.converged]

\* the fitted probabilities listed from the last row to the first
predict_reversed(res) ==
    [i \in DOMAIN res.exog |->
        logit_inverse(dot(res.exog[Len(res.exog) + 1 - i], res.params))]

\* result.predict(): the fitted probability of every row of the design matrix
predict(res) == [i \in DOMAIN res.exog |-> logit_inverse(dot(res.exog[i], res.params))]

\* "%10.4f" of the coefficient table, as a count of 10^-4
format_4f(x) ==
    LET m == RoundHalfEven(Abs(x) * 10000, One)
    IN  IF x < 0 THEN -m ELSE m

\* result.summary(): the dependent variable, the number of observations and
\* the table of coefficients by name (the date and the time of the fit, which
\* the summary also shows, are left out)
summary(res) ==
    [dep |-> res.formula.endog,
     nobs |-> Len(res.exog),
     names |-> <<"Intercept">> \o res.formula.exog,
     coef |-> [k \in DOMAIN res.params |-> format_4f(res.params[k])]]

\* the index taken as if it counted from one: the intercept
params_0(res) == res.params[1]

\* result.params[1]: the coefficient after the intercept
params_1(res) == res.params[2]

----------------------------------------------------------------------------
(* The cells of the notebook, run top to bottom *)

\* the two stages in the other order
FollowingStagesSwapped(c) ==
    CASE c = "load" -> "summary"
      [] c = "summary" -> "ate"
      [] c = "ate" -> "ate_odds"
      [] c = "ate_odds" -> "naive"
      [] c = "naive" -> "naive_odds"
      [] c = "naive_odds" -> "stage2"
      [] c = "stage2" -> "stage1"
      [] c = "stage1" -> "iv_odds"
      [] c = "iv_odds" -> "done"

\* the cell that runs after a cell that raised nothing
Following(c) ==
    CASE c = "load" -> "summary"
      [] c = "summary" -> "ate"
      [] c = "ate" -> "ate_odds"
      [] c = "ate_odds" -> "naive"
      [] c = "naive" -> "naive_odds"
      [] c = "naive_odds" -> "stage1"
      [] c = "stage1" -> "stage2"
      [] c = "stage2" -> "iv_odds"
      [] c = "iv_odds" -> "done"

Banner(title) == Printed(title, 0)

\* the cell ends: what it printed is on the output, and an exception stops
\* the run
Finish(out, e) ==
    /\ stdout' = stdout \o out
    /\ exc' = e
    /\ cell' = IF e = "none" THEN Following(cell) ELSE "aborted"

Init ==
    /\ cell = "load"
    /\ fn = "none"
    /\ args = <<>>
    /\ stdout = <<>>
    /\ exc = "none"
    /\ ret = "unset"
    /\ odds = <<>>
    /\ file \in Files
    /\ InitKernel

\* the file read only when the kernel has no table yet
load_table_once(old, f) == IF old # <<>> THEN old ELSE <<read_sas(f)>>

\* voucher_df = pd.read_sas('colvoucher.sas7bdat'); voucher_df.head()
load_table(old, f) == <<read_sas(f)>>

Load ==
    /\ cell = "load"
    /\ voucher_df' = load_table(voucher_df, file)
    /\ Finish(<<Printed("head", head(voucher_df'[1]))>>, "none")
    /\ UNCHANGED <<helper, file, ate, result, run, earlier, glm_fits,
                   fitted_writes, fitted_reads>>

\* the table a group summary describes
group(df, i) == where(df, "use_fin_aid", i * One)

\* print(voucher_df.describe()), then the same for the rows of each group
Summary ==
    /\ cell = "summary"
    /\ Finish(<<Banner("OVERALL SUMMARY"),
                Printed("describe", describe(voucher_df[1])),
                Banner("USE FINANCIAL AID = 0"),
                Printed("describe", describe(group(voucher_df[1], 0))),
                Banner("USE FINANCIAL AID = 1"),
                Printed("describe", describe(group(voucher_df[1], 1)))>>, "none")
    /\ fitted_reads' = fitted_reads +
                       (IF "use_fin_aid_fitted" \in Range(voucher_df[1].columns) THEN 1 ELSE 0)
    /\ UNCHANGED <<helper, file, voucher_df, ate, result, run, earlier, glm_fits,
                   fitted_writes>>

\* ate = 0.737151 - 0.604082; ate
Ate ==
    /\ cell = "ate"
    /\ ate' = <<float_sub(Literal(737151, 1000000), Literal(604082, 1000000))>>
    /\ Finish(<<Printed("ate", format_repr(ate'[1]))>>, "none")
    /\ UNCHANGED <<helper, file, voucher_df, result, run, earlier, glm_fits,
                   fitted_writes, fitted_reads>>

\* a cell that is one call of a helper
HelperCell(r) ==
    /\ Finish(r.out, r.exc)
    /\ ret' = r.ret
    /\ odds' = r.odds
    /\ UNCHANGED <<fn, args, kernel>>

\* ate_odds_ratio(0.604082, 0.737151)
AteOdds ==
    /\ cell = "ate_odds"
    /\ HelperCell(ate_odds_ratio(Literal(604082, 1000000), Literal(737151, 1000000)))

\* result = smf.glm(...).fit() with outcome o, then print(result.summary()):
\* a fit that raises leaves result as it was and prints no summary.  On a
\* table without rows the library raises from its linear algebra (the
\* exception is written ValueError here) before it estimates anything.
FitAndPrint(title, formula, o) ==
    LET design == dmatrices(formula, voucher_df[1])
        key == <<formula, design>>
    IN  IF design = <<>>
        THEN /\ glm_fits' = glm_fits
             /\ result' = result
             /\ Finish(<<Banner(title)>>, "ValueError")
        ELSE /\ Consistent(key, o)
             /\ glm_fits' = glm_fits \cup {<<key, o>>}
             /\ IF o.error # "none"
                THEN /\ result' = result
                     /\ Finish(<<Banner(title)>>, o.error)
                ELSE /\ result' = <<GLMResults(formula, design, o)>>
                     /\ Finish(<<Banner(title), Printed("summary", summary(result'[1]))>>, "none")

\* the naive logistic regression
Naive ==
    /\ cell = "naive"
    /\ \E o \in FitOutcomes : FitAndPrint("LOGISTIC REGRESSION", NaiveFormula, o)
    /\ UNCHANGED <<helper, file, voucher_df, ate, run, earlier,
                   fitted_writes, fitted_reads>>

\* coefficient_to_odds_ratio(result.params[1])
NaiveOdds ==
    /\ cell = "naive_odds"
    /\ HelperCell(coefficient_to_odds_ratio(params_1(result[1])))

\* the first stage: fit, voucher_df['use_fin_aid_fitted'] = result.predict(),
\* print(result.summary())
Stage1 ==
    /\ cell = "stage1"
    /\ \E o \in FitOutcomes : FitAndPrint("FIRST STAGE", Stage1Formula, o)
    /\ IF exc' = "none"
       THEN /\ voucher_df' = <<setitem(voucher_df[1], "use_fin_aid_fitted", predict(result'[1]))>>
            /\ fitted_writes' = fitted_writes + 1
       ELSE UNCHANGED <<voucher_df, fitted_writes>>
    /\ UNCHANGED <<helper, file, ate, run, earlier, fitted_reads>>

\* the second stage: the formula names use_fin_aid_fitted, which patsy looks
\* up in the table (PatsyError when the table has no such column)
Stage2 ==
    /\ cell = "stage2"
    /\ IF Names(Stage2Formula) \subseteq Range(voucher_df[1].columns)
       THEN /\ \E o \in FitOutcomes : FitAndPrint("SECOND STAGE", Stage2Formula, o)
            /\ fitted_reads' = fitted_reads + 1
       ELSE /\ Finish(<<Banner("SECOND STAGE")>>, "PatsyError")
            /\ UNCHANGED <<result, glm_fits, fitted_reads>>
    /\ UNCHANGED <<helper, file, voucher_df, ate, run, earlier, fitted_writes>>

\* coefficient_to_odds_ratio(result.params[1])
IvOdds ==
    /\ cell = "iv_odds"
    /\ HelperCell(coefficient_to_odds_ratio(params_1(result[1])))

\* the notebook is run again from the top in the same kernel: the names bound
\* by the run before stay bound
RunAgain ==
    /\ cell \in {"done", "aborted"}
    /\ run < MaxRuns
    /\ run' = run + 1
    /\ earlier' = Append(earlier, [out |-> stdout, exc |-> exc])
    /\ stdout' = <<>>
    /\ exc' = "none"
    /\ cell' = "load"
    /\ fitted_writes' = 0
    /\ fitted_reads' = 0
    /\ UNCHANGED <<helper, file, voucher_df, ate, result, glm_fits>>

Next ==
    \/ Load
    \/ Summary
    \/ Ate
    \/ AteOdds
    \/ Naive
    \/ NaiveOdds
    \/ Stage1
    \/ Stage2
    \/ IvOdds
    \/ RunAgain

Spec == Init /\ [][Next]_vars

----------------------------------------------------------------------------
(* The claims about the helper functions, under SpecHelpers *)

ReturnedFrom(f) == cell = "returned" /\ fn = f

\* a probability strictly between 0 and 1
Valid(p) == 0 < p /\ p < One

ValidProbabilities == {p \in Probabilities : Valid(p)}

\* the value a call of ate_odds_ratio assigns to odds (the call must not raise)
OddsDifference(p0, p1) == ate_odds_ratio(p0, p1).odds[1]

\* v is p1/(1-p1) - p0/(1-p0) up to the rounding of the float operations that
\* evaluate it: three roundings on each odds and one of the difference, each
\* of at most 2^-Prec relative (4 * 2^-Prec of the sum of the two odds bounds
\* them), and half a unit of the smallest float where a quotient is subnormal.
\* Stated over the integers: both sides times (1-p1)(1-p0) * 2^Prec.
IsOddsDifference(v, p0, p1) ==
    LET den == (One - p1) * (One - p0)
        num == p1 * (One - p0) - p0 * (One - p1)
        sum == p1 * (One - p0) + p0 * (One - p1)
    IN  2^Prec * Abs(v * den - One * num) <= 4 * One * sum + 2^Prec * den

\* C1: for valid p0, p1 strictly between 0 and 1, ate_odds_ratio(p0, p1) raises
\* nothing, and the one line it prints reports the value it computed, which is
\* p1/(1-p1) - p0/(1-p0), the odds of prob1 minus the odds of prob0, as the
\* float operations evaluate it.
C1_OddsDifference ==
    (ReturnedFrom("ate_odds_ratio") /\ Valid(args[1]) /\ Valid(args[2])) =>
        /\ exc = "none"
        /\ Len(stdout) = 1
        /\ stdout[1].text = "Odds ratio: {}"
        /\ odds = <<stdout[1].value>>
        /\ IsOddsDifference(stdout[1].value, args[1], args[2])

\* ate_odds_ratio(1/4, 3/4) has printed 3 - 1/3, which rounds to 2.75
C1_Witness ==
    /\ ReturnedFrom("ate_odds_ratio")
    /\ args = <<One \div 4, 3 * (One \div 4)>>
    /\ Len(stdout) = 1
    /\ stdout[1].value = 2 * One + 3 * (One \div 4)

\* C3: when either probability passed to ate_odds_ratio equals 1 the call ends
\* in ZeroDivisionError: no line is printed and odds is never assigned, so no
\* infinite or NaN value is produced.
C3_OneRaises ==
    (ReturnedFrom("ate_odds_ratio") /\ (args[1] = One \/ args[2] = One)) =>
        /\ exc = "ZeroDivisionError"
        /\ stdout = <<>>
        /\ odds = <<>>
        /\ ret = "unset"

\* prob0 = 1 with prob1 = 1/2: the first quotient is computed, the second raises
C3_Witness ==
    /\ ReturnedFrom("ate_odds_ratio")
    /\ args = <<One, One \div 2>>
    /\ exc = "ZeroDivisionError"

Degenerate(p) == p = 0 \/ p = One

\* C4 as claimed: a probability of exactly 0 or exactly 1 as either argument
\* is signalled, and no numeric odds value is emitted.
C4_AsClaimed ==
    (ReturnedFrom("ate_odds_ratio") /\ (Degenerate(args[1]) \/ Degenerate(args[2]))) =>
        /\ exc # "none"
        /\ stdout = <<>>

\* C4, amended: a probability of exactly 1 as either argument is signalled
\* (ZeroDivisionError, nothing printed); a probability of exactly 0 is not:
\* its odds are 0, and with the other argument below 1 the call prints an
\* ordinary number, the odds of prob1 when prob0 is 0 and minus the odds of
\* prob0 when prob1 is 0 (up to rounding).
C4_OnlyOneSignalled ==
    ReturnedFrom("ate_odds_ratio") =>
        /\ (args[1] = One \/ args[2] = One) => (exc # "none" /\ stdout = <<>>)
        /\ ((args[1] = 0 \/ args[2] = 0) /\ args[1] # One /\ args[2] # One) =>
              /\ exc = "none"
              /\ Len(stdout) = 1
              /\ IsOddsDifference(stdout[1].value, args[1], args[2])
              /\ args[1] = 0 => stdout[1].value >= 0
              /\ args[2] = 0 => stdout[1].value <= 0

\* ate_odds_ratio(0, 1/2) has printed the odds of 1/2, which is 1
C4_Witness ==
    /\ ReturnedFrom("ate_odds_ratio")
    /\ args = <<0, One \div 2>>
    /\ exc = "none"
    /\ Len(stdout) = 1
    /\ stdout[1].value = One

\* C8 as claimed: over valid probabilities a larger p1 gives a larger result
\* and a larger p0 a smaller one.
C8_AsClaimed ==
    (ReturnedFrom("ate_odds_ratio") /\ Valid(args[1]) /\ Valid(args[2])) =>
        \A q \in ValidProbabilities :
            /\ q > args[2] => OddsDifference(args[1], q) > odds[1]
            /\ q > args[1] => OddsDifference(q, args[2]) < odds[1]

\* C8, amended: over valid probabilities ate_odds_ratio is monotonic in each
\* argument, but not strictly: a larger p1 never gives a smaller result and a
\* larger p0 never a larger one; the result is rounded to a float, so two
\* different arguments can give the same result.
C8_Monotonic ==
    (ReturnedFrom("ate_odds_ratio") /\ Valid(args[1]) /\ Valid(args[2])) =>
        \A q \in ValidProbabilities :
            /\ q > args[2] => OddsDifference(args[1], q) >= odds[1]
            /\ q > args[1] => OddsDifference(q, args[2]) <= odds[1]

\* at p0 = 1/2: p1 = 1/4 has given 1/3 - 1, and p1 = 3/4 gives more, 3 - 1
C8_Witness ==
    /\ ReturnedFrom("ate_odds_ratio")
    /\ args = <<One \div 2, One \div 4>>
    /\ odds # <<>>
    /\ odds[1] < 0
    /\ OddsDifference(One \div 2, 3 * (One \div 4)) = 2 * One

\* C9: coefficient_to_odds_ratio(0) computes an odds ratio of exactly 1 and
\* reports it, as 1.000000.
C9_ZeroGivesOne ==
    (ReturnedFrom("coefficient_to_odds_ratio") /\ args = <<0>>) =>
        /\ exc = "none"
        /\ odds = <<One>>
        /\ Len(stdout) = 1
        /\ stdout[1].value = 10^FormatPrecision

C9_Witness ==
    /\ ReturnedFrom("coefficient_to_odds_ratio")
    /\ args = <<0>>
    /\ Len(stdout) = 1

\* the coefficients math.exp accepts
InRange(c) == coefficient_to_odds_ratio(c).exc = "none"

\* the value a call of coefficient_to_odds_ratio assigns to odds (c in range)
OddsRatio(c) == coefficient_to_odds_ratio(c).odds[1]

\* C10 as claimed: for coefficients c1 < c2 the odds ratio computed for c1 is
\* strictly smaller than the one computed for c2.
C10_AsClaimed ==
    (ReturnedFrom("coefficient_to_odds_ratio") /\ exc = "none") =>
        \A c2 \in Coefficients :
            (args[1] < c2 /\ InRange(c2)) => odds[1] < OddsRatio(c2)

\* C10, amended: coefficient_to_odds_ratio is increasing in its coefficient,
\* but not strictly: for c1 < c2, both in the range of math.exp, the odds
\* ratio computed for c1 is never larger than the one computed for c2, so a
\* negative coefficient gives a value of at most 1 and a positive one a value
\* of at least 1; coefficients the float result cannot tell apart (close to
\* each other, close to 0, or far below 0 where e^c underflows) give equal
\* values.
C10_Increasing ==
    (ReturnedFrom("coefficient_to_odds_ratio") /\ exc = "none") =>
        /\ \A c2 \in Coefficients :
              (args[1] < c2 /\ InRange(c2)) => odds[1] <= OddsRatio(c2)
        /\ args[1] < 0 => odds[1] <= One
        /\ args[1] > 0 => odds[1] >= One

\* the coefficient -1 has given a value below 1, and the coefficient 1 gives
\* one above 1
C10_Witness ==
    /\ ReturnedFrom("coefficient_to_odds_ratio")
    /\ args = <<-One>>
    /\ odds # <<>>
    /\ odds[1] < One
    /\ OddsRatio(One) > One

----------------------------------------------------------------------------
(* The claims about the pipeline, under Spec *)

Fitted == "use_fin_aid_fitted"

HasFitted == voucher_df # <<>> /\ Fitted \in Range(voucher_df[1].columns)

\* the stored column, row by row
FittedColumn == [i \in DOMAIN voucher_df[1].rows |-> voucher_df[1].rows[i][Fitted]]

ResultOf(formula) == result # <<>> /\ result[1].formula = formula

\* C2: the stage-1 fit has completed and stored its fitted probabilities in
\* the column use_fin_aid_fitted before the stage-2 fit starts; the stage-2
\* fit has that stored column, not use_fin_aid, as its regressor; in a run the
\* column is written at most once and read at most once, never read before
\* it is written, and exactly once each when the run completes; stage 2 is
\* never fitted on a table without the column.
C2_StageOrder ==
    /\ fitted_writes <= 1
    /\ fitted_reads <= fitted_writes
    /\ fitted_reads = 1 => HasFitted
    /\ cell = "stage2" =>
          /\ ResultOf(Stage1Formula)
          /\ HasFitted
          /\ FittedColumn = predict(result[1])
          /\ fitted_writes = 1
          /\ fitted_reads = 0
    /\ cell \in {"iv_odds", "done"} =>
          /\ ResultOf(Stage2Formula)
          /\ "use_fin_aid" \notin Names(result[1].formula)
          /\ HasFitted
          /\ \A i \in DOMAIN result[1].exog : result[1].exog[i][2] = FittedColumn[i]
          /\ fitted_writes = 1
          /\ fitted_reads = 1
    /\ \A p \in glm_fits : p[1][1] = Stage2Formula => fitted_reads = 1 \/ run > 1

\* a first run has completed: stage 2 was fitted on the column stage 1 stored
C2_Witness ==
    /\ cell = "done"
    /\ run = 1
    /\ ResultOf(Stage2Formula)
    /\ fitted_writes = 1
    /\ fitted_reads = 1
    /\ \E i \in DOMAIN result[1].exog :
          result[1].exog[i][2] = FittedColumn[i] /\ 0 < FittedColumn[i] /\ FittedColumn[i] < One

\* the linear predictor of row i in the stage-1 fit of the table as loaded
Stage1Predictor(i, params) == dot(dmatrices(Stage1Formula, read_sas(file))[i].x, params)

\* the coefficients of the stage-1 fit of the table as loaded, where it was made
Stage1Params ==
    {p[2].params : p \in {q \in glm_fits :
        q[1] = <<Stage1Formula, dmatrices(Stage1Formula, read_sas(file))>> /\ q[2].error = "none"}}

\* C5 as claimed: after the stage-1 fit every row's value in the column
\* use_fin_aid_fitted lies strictly between 0 and 1.
C5_AsClaimed ==
    HasFitted => \A i \in DOMAIN FittedColumn : 0 < FittedColumn[i] /\ FittedColumn[i] < One

\* C5, amended: after the stage-1 fit every row's value in the column
\* use_fin_aid_fitted is the logistic transform of that row's linear predictor
\* and lies in the closed interval from 0 to 1; it is strictly between 0 and 1
\* for every row whose linear predictor is smaller in magnitude than half the
\* number of significant bits of a float (26.5 for binary64), and a large
\* enough predictor rounds it to exactly 1 or 0.
C5_ClosedInterval ==
    HasFitted =>
        \A i \in DOMAIN FittedColumn :
            /\ 0 <= FittedColumn[i]
            /\ FittedColumn[i] <= One
            /\ \A b \in Stage1Params :
                  2 * Abs(Stage1Predictor(i, b)) < Prec * One =>
                      (0 < FittedColumn[i] /\ FittedColumn[i] < One)

\* stage 1 has stored its column for a table with one row exactly at 1 and
\* another, of a small linear predictor, strictly inside the interval
C5_Witness ==
    /\ HasFitted
    /\ Stage1Params # {}
    /\ \E j \in DOMAIN FittedColumn : FittedColumn[j] = One
    /\ \E i \in DOMAIN FittedColumn :
          /\ 0 < FittedColumn[i]
          /\ FittedColumn[i] < One
          /\ \A b \in Stage1Params : 2 * Abs(Stage1Predictor(i, b)) < Prec * One

\* the six columns of a table as loaded, row by row
BaseView(df) == [i \in DOMAIN df.rows |-> [c \in Range(BaseColumns) |-> df.rows[i][c]]]

WithFitted == Append(BaseColumns, Fitted)

\* C6: the table is changed in exactly one way, the column use_fin_aid_fitted
\* added by stage 1.  In every state the rows are those loaded from the file,
\* in their order and with their values of id, won_lottry, male, base_age,
\* finish8th and use_fin_aid, and the columns are the six loaded ones, with
\* use_fin_aid_fitted after them once stage 1 has run (and until the next
\* run loads the file again); no step of a cell
\* other than stage 1 changes the table at all, and stage 1 only adds that
\* column (the load cell binds a newly read table).
C6_Frame ==
    /\ [](voucher_df # <<>> =>
            /\ BaseView(voucher_df[1]) = read_sas(file).rows
            /\ voucher_df[1].columns \in {BaseColumns, WithFitted}
            /\ cell \in {"stage2", "iv_odds", "done"} => HasFitted
            /\ HasFitted => fitted_writes = 1 \/ (cell = "load" /\ run > 1))
    /\ [][cell \notin {"load", "stage1"} => voucher_df' = voucher_df]_vars
    /\ [][(cell = "stage1" /\ voucher_df' # voucher_df) =>
              /\ voucher_df[1].columns = BaseColumns
              /\ voucher_df'[1].columns = WithFitted
              /\ BaseView(voucher_df'[1]) = BaseView(voucher_df[1])]_vars

\* stage 1 has added the column to a table of two rows
C6_Witness ==
    /\ cell = "stage2"
    /\ voucher_df[1].columns = WithFitted
    /\ Len(voucher_df[1].rows) = 2
    /\ BaseView(voucher_df[1]) = read_sas(file).rows

\* C7: a run of the pipeline in a kernel that has run it before prints what
\* the run before printed, item by item (statistics, coefficients and odds
\* ratios), and ends as it ended, although the kernel starts it with the names
\* of the run before bound, voucher_df with its column use_fin_aid_fitted
\* among them.
C7_RunsAgree ==
    run > 1 =>
        /\ Len(stdout) <= Len(earlier[run - 1].out)
        /\ stdout = SubSeq(earlier[run - 1].out, 1, Len(stdout))
        /\ cell \in {"done", "aborted"} =>
              (stdout = earlier[run - 1].out /\ exc = earlier[run - 1].exc)

\* a second run has completed after a first that left the column behind
C7_Witness ==
    /\ run = 2
    /\ cell = "done"
    /\ Len(stdout) > 0
    /\ stdout = earlier[1].out
    /\ HasFitted

\* the empirical proportion of finish8th = 1 among the rows of group i, as the
\* summary prints it (<<>> for a group without rows)
Proportion(df, i) == describe(group(df, i))["finish8th"].mean

\* the last line on the output
LastLine == stdout[Len(stdout)]

\* C11 as claimed: the two probabilities of the unconditional ATE are derived
\* from the loaded table: with p0 and p1 the proportions of finish8th = 1
\* among the rows with use_fin_aid = 0 and = 1, the cell binds ate to p1 - p0,
\* and ate_odds_ratio is called on p0 and p1, for whatever table was loaded.
C11_DerivedFromTable ==
    (voucher_df # <<>> /\ cell \in {"ate_odds", "naive"} /\ exc = "none") =>
        LET p0 == Proportion(voucher_df[1], 0)
            p1 == Proportion(voucher_df[1], 1)
        IN  (p0 # <<>> /\ p1 # <<>>) =>
                /\ ate[1] = float_sub(p1[1], p0[1])
                /\ (cell = "naive" /\ Valid(p0[1]) /\ Valid(p1[1])) =>
                       <<LastLine>> = ate_odds_ratio(p0[1], p1[1]).out

----------------------------------------------------------------------------
(* The worked example of the notebook.  Its numbers are given to four and  *)
(* six decimal places, which floats of Prec significant bits cannot tell   *)
(* apart; the cells of the worked example are evaluated here in the same   *)
(* arithmetic with WorkedPrec significant bits.  A float is a count of     *)
(* units of 2^-WorkedFracBits, and the operations divide and multiply in   *)
(* steps that stay within the integers of the checker.                     *)

WorkedPrec == 24       \* significant bits (binary32: 24, binary64: 53)

WorkedSpread == 2      \* the literals tried around those of the notebook

WorkedFracBits == WorkedPrec + 3

WorkedOne == 2^WorkedFracBits

\* <<floor((q + r/b) * 2^n), the remainder over b>>, for 0 <= r < b
RECURSIVE LongDiv(_, _, _, _)
LongDiv(q, r, b, n) ==
    IF n = 0 THEN <<q, r>>
    ELSE LongDiv(2 * q + (2 * r) \div b, (2 * r) % b, b, n - 1)

RECURSIVE WorkedDropBits(_)
WorkedDropBits(q) == IF q < 2^WorkedPrec THEN 0 ELSE 1 + WorkedDropBits(q \div 2)

\* the float nearest to q + r/b units (q >= 0, 0 <= r < b), ties to even
WorkedRound(q, r, b) ==
    LET k == WorkedDropBits(q)
        hi == q \div 2^k
        low == q % 2^k
        up == IF k = 0
              THEN 2 * r > b \/ (2 * r = b /\ hi % 2 = 1)
              ELSE \/ 2 * low > 2^k
                   \/ (2 * low = 2^k /\ (r > 0 \/ hi % 2 = 1))
    IN  (IF up THEN hi + 1 ELSE hi) * 2^k

\* the float nearest to the rational a/b, a >= 0, b > 0
WorkedQuotient(a, b) ==
    LET d == LongDiv(a \div b, a % b, b, WorkedFracBits)
    IN  WorkedRound(d[1], d[2], b)

\* the decimal literal num/den read as a float
worked_literal(num, den) == WorkedQuotient(num, den)

worked_sub(x, y) ==
    IF x >= y THEN WorkedRound(x - y, 0, 1) ELSE -WorkedRound(y - x, 0, 1)

\* x / y for x >= 0, y > 0
worked_truediv(x, y) == WorkedQuotient(x, y)

\* floor(a * b / WorkedOne) to within two units, for 0 <= a, b <= WorkedOne:
\* the product is taken by halves of the two factors
WorkedMulShift(a, b) ==
    LET h == (WorkedFracBits + 1) \div 2
        a1 == a \div 2^h
        a0 == a % 2^h
        b1 == b \div 2^h
        b0 == b % 2^h
    IN  (a1 * b1) * 2^(2 * h - WorkedFracBits)
          + (a1 * b0 + a0 * b1) \div 2^(WorkedFracBits - h)
          + (a0 * b0) \div WorkedOne

\* the Taylor series of e^x, 0 <= x < 1, from the term x^(k-1)/(k-1)! on
RECURSIVE WorkedExpSeries(_, _, _)
WorkedExpSeries(x, term, k) ==
    IF term = 0 THEN 0
    ELSE term + WorkedExpSeries(x, WorkedMulShift(term, x) \div k, k + 1)

\* math.exp(x) for 0 <= x < 1: e^x to within a unit in the last place
worked_exp(x) == WorkedRound(WorkedOne + WorkedExpSeries(x, x, 2), 0, 1)

\* <<floor((q + r/WorkedOne) * 10^n), the remainder over WorkedOne>>
RECURSIVE DecimalDigits(_, _, _)
DecimalDigits(q, r, n) ==
    IF n = 0 THEN <<q, r>>
    ELSE LET t == 5 * r
             half == WorkedOne \div 2
         IN  DecimalDigits(10 * q + t \div half, 2 * (t % half), n - 1)

\* a float x >= 0 cut after n decimal places, as a count of 10^-n
Truncated(x, n) == DecimalDigits(x \div WorkedOne, x % WorkedOne, n)[1]

\* a float x >= 0 rounded to n decimal places (ties to even), as a count of 10^-n
Rounded(x, n) ==
    LET d == DecimalDigits(x \div WorkedOne, x % WorkedOne, n)
    IN  IF 2 * d[2] > WorkedOne \/ (2 * d[2] = WorkedOne /\ d[1] % 2 = 1)
        THEN d[1] + 1 ELSE d[1]

\* "{:2f}".format(x): six decimal places
worked_format_2f(x) == Rounded(x, FormatPrecision)

\* the literals of the worked example, as counts of 10^-6 and of 10^-4
Prob0Literal == 604082

Prob1Literal == 737151

NaiveCoefficient == 5773

Stage2Coefficient == 7743

\* the difference taken the other way round
ate_worked_swapped(prob0, prob1) == worked_sub(prob0, prob1)

\* ate = prob1 - prob0
ate_worked(prob0, prob1) == worked_sub(prob1, prob0)

\* the two arguments taken in the other order
ate_odds_ratio_worked_swapped(prob0, prob1) ==
    LET d1 == worked_sub(WorkedOne, prob1)
        d0 == worked_sub(WorkedOne, prob0)
    IN  IF d0 = 0 THEN Raised("ZeroDivisionError", <<>>)
        ELSE IF d1 = 0 THEN Raised("ZeroDivisionError", <<>>)
        ELSE LET v == worked_sub(worked_truediv(prob0, d0), worked_truediv(prob1, d1))
             IN  PrintedAndReturned(Printed("Odds ratio: {}", format_repr(v)), v)

\* ate_odds_ratio on probabilities in [0, 1]
ate_odds_ratio_worked(prob0, prob1) ==
    LET d1 == worked_sub(WorkedOne, prob1)
        d0 == worked_sub(WorkedOne, prob0)
    IN  IF d1 = 0 THEN Raised("ZeroDivisionError", <<>>)
        ELSE IF d0 = 0 THEN Raised("ZeroDivisionError", <<>>)
        ELSE LET v == worked_sub(worked_truediv(prob1, d1), worked_truediv(prob0, d0))
             IN  PrintedAndReturned(Printed("Odds ratio: {}", format_repr(v)), v)

\* math.expm1 in the place of math.exp
coefficient_to_odds_ratio_worked_expm1(coefficient) ==
    LET v == worked_exp(coefficient) - WorkedOne
    IN  PrintedAndReturned(
            Printed("Those using financial aid are {:2f} times more likely to finish the 8th grade!",
                    worked_format_2f(v)),
            v)

\* math.exp with the sign of its argument lost: e^-x = 1/e^x
coefficient_to_odds_ratio_worked_negated(coefficient) ==
    LET v == worked_truediv(WorkedOne, worked_exp(coefficient))
    IN  PrintedAndReturned(
            Printed("Those using financial aid are {:2f} times more likely to finish the 8th grade!",
                    worked_format_2f(v)),
            v)

\* coefficient_to_odds_ratio on a coefficient in [0, 1), where math.exp does
\* not overflow
coefficient_to_odds_ratio_worked(coefficient) ==
    LET v == worked_exp(coefficient)
    IN  PrintedAndReturned(
            Printed("Those using financial aid are {:2f} times more likely to finish the 8th grade!",
                    worked_format_2f(v)),
            v)

\* the decimal literals within WorkedSpread of n in the last place
Around(n, den) == {worked_literal(k, den) : k \in (n - WorkedSpread)..(n + WorkedSpread)}

InitWorked ==
    /\ cell = "call"
    /\ fn \in {"ate", "ate_odds_ratio", "coefficient_to_odds_ratio"}
    /\ args \in IF fn = "coefficient_to_odds_ratio"
                THEN {<<c>> : c \in Around(NaiveCoefficient, 10^4)
                                     \cup Around(Stage2Coefficient, 10^4)}
                ELSE Around(Prob0Literal, 10^6) \X Around(Prob1Literal, 10^6)
    /\ stdout = <<>>
    /\ exc = "none"
    /\ ret = "unset"
    /\ odds = <<>>
    /\ file = <<>>
    /\ InitKernel

\* ate = prob1 - prob0; ate
WorkedAte ==
    /\ cell = "call"
    /\ fn = "ate"
    /\ ate' = <<ate_worked(args[1], args[2])>>
    /\ stdout' = stdout \o <<Printed("ate", format_repr(ate'[1]))>>
    /\ cell' = "returned"
    /\ UNCHANGED <<exc, helper, file, voucher_df, result, run, earlier, glm_fits,
                   fitted_writes, fitted_reads>>

WorkedAteOddsRatio ==
    /\ cell = "call"
    /\ fn = "ate_odds_ratio"
    /\ Return(ate_odds_ratio_worked(args[1], args[2]))

WorkedCoefficientToOddsRatio ==
    /\ cell = "call"
    /\ fn = "coefficient_to_odds_ratio"
    /\ Return(coefficient_to_odds_ratio_worked(args[1]))

NextWorked == WorkedAte \/ WorkedAteOddsRatio \/ WorkedCoefficientToOddsRatio

SpecWorked == InitWorked /\ [][NextWorked]_vars

----------------------------------------------------------------------------
(* The claims about the worked example, under SpecWorked *)

\* a float agrees with the decimal m * 10^-n to the n places shown: cut or
\* rounded to n places it reads m
AgreesTo(x, m, n) == x >= 0 /\ (Rounded(x, n) = m \/ Truncated(x, n) = m)

\* the same for a number printed with six decimal places and m * 10^-4
PrintedAgreesTo(m6, m) == m6 >= 0 /\ (RoundHalfEven(m6, 100) = m \/ m6 \div 100 = m)

WorkedProbabilities == <<worked_literal(Prob0Literal, 10^6), worked_literal(Prob1Literal, 10^6)>>

\* C12: for p0 = 0.604082 and p1 = 0.737151 the cell binds ate to a float
\* that reads 0.133069 to six decimal places, and displays it.
C12_WorkedAte ==
    (ReturnedFrom("ate") /\ args = WorkedProbabilities) =>
        /\ AgreesTo(ate[1], 133069, 6)
        /\ Rounded(ate[1], 6) = 133069
        /\ stdout = <<Printed("ate", ate[1])>>

C12_Witness ==
    /\ ReturnedFrom("ate")
    /\ args = WorkedProbabilities
    /\ ate # <<>>
    /\ Len(stdout) = 1

\* C13 as claimed: for p0 = 0.604082 and p1 = 0.737151 the odds difference
\* that ate_odds_ratio(p0, p1) prints agrees with 1.2789 to four decimal
\* places.
C13_AsClaimed ==
    (ReturnedFrom("ate_odds_ratio") /\ args = WorkedProbabilities) =>
        /\ exc = "none"
        /\ AgreesTo(LastLine.value, 12789, 4)

\* C13, amended: for p0 = 0.604082 and p1 = 0.737151 the odds difference that
\* ate_odds_ratio(p0, p1) prints is 1.278690 to six decimal places, 1.2787 to
\* four.
C13_WorkedOddsDifference ==
    (ReturnedFrom("ate_odds_ratio") /\ args = WorkedProbabilities) =>
        /\ exc = "none"
        /\ LastLine.text = "Odds ratio: {}"
        /\ LastLine.value = odds[1]
        /\ LastLine.value >= 0
        /\ Rounded(LastLine.value, 4) = 12787
        /\ Rounded(LastLine.value, 6) \in {1278690, 1278691}

C13_Witness ==
    /\ ReturnedFrom("ate_odds_ratio")
    /\ args = WorkedProbabilities
    /\ Len(stdout) = 1
    /\ odds # <<>>

\* C14: for the coefficient 0.5773 coefficient_to_odds_ratio prints an odds
\* ratio that agrees with 1.7812 to four decimal places.
C14_WorkedNaiveOddsRatio ==
    (ReturnedFrom("coefficient_to_odds_ratio")
        /\ args = <<worked_literal(NaiveCoefficient, 10^4)>>) =>
        /\ exc = "none"
        /\ PrintedAgreesTo(LastLine.value, 17812)
        /\ RoundHalfEven(LastLine.value, 100) = 17812

C14_Witness ==
    /\ ReturnedFrom("coefficient_to_odds_ratio")
    /\ args = <<worked_literal(NaiveCoefficient, 10^4)>>
    /\ Len(stdout) = 1
    /\ LastLine.value = worked_format_2f(odds[1])

----------------------------------------------------------------------------
(* The claim about what the helpers return, under SpecHelpers *)

\* C16 as claimed: a call of coefficient_to_odds_ratio or of ate_odds_ratio
\* that ends without an exception has computed its odds and returns that
\* value to its caller, which is then not None.
C16_ReturnsOdds ==
    (cell = "returned" /\ exc = "none") =>
        /\ odds # <<>>
        /\ ret # "None"
        /\ ret # "unset"

----------------------------------------------------------------------------
(* The claims about failures of the pipeline, under Spec *)

NotConverged == result # <<>> /\ ~result[1].converged

\* C17 as claimed: a fit that has not converged is surfaced: the run does not
\* go on from it as from a fit that succeeded, so no cell after a fit runs
\* with result bound to a fit that has not converged, and the stored column
\* use_fin_aid_fitted never holds the predictions of such a fit.
C17_NonConvergenceSurfaced ==
    /\ cell \in {"naive_odds", "stage2", "iv_odds", "done"} => ~NotConverged
    /\ (cell = "stage2" /\ HasFitted) => ~NotConverged

\* the lines on the output that come from the summary statistics or from a
\* later cell
AfterLoad == {i \in DOMAIN stdout : stdout[i].text # "head"}

\* the tables that the summary statistics described
Described == {stdout[i].value : i \in {j \in DOMAIN stdout : stdout[j].text = "describe"}}

\* C18 as claimed: for an input file without rows the run aborts at the load
\* and neither the summary statistics nor any later cell prints anything;
\* and the summary statistics never describe a group that has no rows.
C18_InputValidated ==
    /\ (file = <<>> /\ cell # "load") => (cell = "aborted" /\ exc # "none")
    /\ file = <<>> => AfterLoad = {}
    /\ \A d \in Described : d["id"].count > 0

----------------------------------------------------------------------------
(* The claims about the fits and the fitted column, under Spec *)

\* the coefficient that the summary of a fit lists under a name
Coefficient(res, name) ==
    res.params[CHOOSE k \in DOMAIN res.params : summary(res).names[k] = name]

\* the line coefficient_to_odds_ratio prints for a coefficient
OddsRatioLine(c) == coefficient_to_odds_ratio(c).out

\* C19: each of the three fits rebinds result to its own model; when the
\* first coefficient_to_odds_ratio(result.params[1]) runs, result is the naive
\* fit and the call transforms its coefficient on use_fin_aid (position 0 is
\* the intercept); when the second runs, result is the stage-2 fit, never the
\* stage-1 fit, and the call transforms its coefficient on
\* use_fin_aid_fitted; the odds ratio last reported by a completed run is that
\* of the stage-2 coefficient.
C19_ResultAtEachCall ==
    /\ [](/\ cell = "naive_odds" => ResultOf(NaiveFormula)
          /\ cell = "stage2" => ResultOf(Stage1Formula)
          /\ cell \in {"iv_odds", "done"} => ResultOf(Stage2Formula)
          /\ result # <<>> => summary(result[1]).names[1] = "Intercept")
    /\ [][(cell \in {"naive", "stage1", "stage2"} /\ exc' = "none") =>
              /\ result'[1].formula = (CASE cell = "naive" -> NaiveFormula
                                         [] cell = "stage1" -> Stage1Formula
                                         [] cell = "stage2" -> Stage2Formula)
              /\ result'[1].exog = [i \in DOMAIN voucher_df[1].rows |->
                                       dmatrices(result'[1].formula, voucher_df[1])[i].x]]_vars
    /\ [][(cell = "naive_odds" /\ exc' = "none" /\ cell' # "load") =>
              /\ result' = result
              /\ <<stdout'[Len(stdout')]>> = OddsRatioLine(Coefficient(result[1], "use_fin_aid"))]_vars
    /\ [][(cell = "iv_odds" /\ exc' = "none" /\ cell' # "load") =>
              /\ result' = result
              /\ <<stdout'[Len(stdout')]>> =
                     OddsRatioLine(Coefficient(result[1], "use_fin_aid_fitted"))]_vars

\* a run has completed: the last line is the odds ratio of the stage-2
\* coefficient on use_fin_aid_fitted
C19_Witness ==
    /\ cell = "done"
    /\ run = 1
    /\ ResultOf(Stage2Formula)
    /\ <<LastLine>> = OddsRatioLine(Coefficient(result[1], "use_fin_aid_fitted"))
    /\ Coefficient(result[1], "use_fin_aid_fitted") # result[1].params[1]

\* the stage-1 prediction for a row of the table from its own won_lottry,
\* male and base_age, with coefficients b
Stage1Prediction(row, b) ==
    logit_inverse(dot(<<One, row["won_lottry"], row["male"], row["base_age"]>>, b))

\* the numbers of observations in the summaries printed so far
Observations == {stdout[i].value.nobs : i \in {j \in DOMAIN stdout : stdout[j].text = "summary"}}

\* C20: the column stored by stage 1 has exactly one value for every row of
\* the table, in row order, and the value on a row is the stage-1 prediction
\* for that row's own won_lottry, male and base_age; the stage-2 fit has one
\* observation for every row, made of that row's fitted value, male and
\* base_age, and the three fits of a run have the same number of
\* observations, the number of rows of the table.
C20_FittedAligned ==
    /\ HasFitted =>
          /\ DOMAIN FittedColumn = DOMAIN read_sas(file).rows
          /\ \A b \in Stage1Params : \A i \in DOMAIN FittedColumn :
                FittedColumn[i] = Stage1Prediction(read_sas(file).rows[i], b)
          /\ fitted_writes = 1 => Cardinality(Stage1Params) = 1
    /\ cell \in {"iv_odds", "done"} =>
          /\ DOMAIN result[1].exog = DOMAIN voucher_df[1].rows
          /\ \A i \in DOMAIN result[1].exog :
                result[1].exog[i] = <<One, voucher_df[1].rows[i][Fitted],
                                      voucher_df[1].rows[i]["male"],
                                      voucher_df[1].rows[i]["base_age"]>>
    /\ voucher_df # <<>> /\ cell # "load" => Observations \subseteq {Len(voucher_df[1].rows)}

\* a run has completed on a table of two rows whose fitted values differ
C20_Witness ==
    /\ cell = "done"
    /\ HasFitted
    /\ Len(FittedColumn) = 2
    /\ FittedColumn[1] # FittedColumn[2]
    /\ Cardinality(Observations) = 1
    /\ \A b \in Stage1Params : \A i \in DOMAIN FittedColumn :
          FittedColumn[i] = Stage1Prediction(read_sas(file).rows[i], b)

----------------------------------------------------------------------------
(* The claim about the group summaries, under Spec *)

\* the summary statistics of this run are on the output
Summarized == \E i \in DOMAIN stdout : stdout[i].text = "OVERALL SUMMARY"

\* the table of statistics printed under a banner
SummaryUnder(title) ==
    stdout[(CHOOSE i \in DOMAIN stdout : stdout[i].text = title) + 1].value

\* the rows of the table whose use_fin_aid is i
RowsOfGroup(i) ==
    {r \in DOMAIN voucher_df[1].rows : voucher_df[1].rows[r]["use_fin_aid"] = i * One}

\* C21: use_fin_aid being 0 or 1 on every row, the two group summaries
\* partition the table: every row is in exactly one of the two groups, the
\* count printed for a group is the number of rows of that group, the two
\* counts add up to the count of the overall summary (the number of rows of
\* the table), and the statistics printed for a group are of rows of that
\* group only (its use_fin_aid is constant at the group's value and its
\* smallest and largest id are ids of rows of the group).
C21_GroupsPartition ==
    (Summarized /\ voucher_df # <<>>) =>
        LET all == SummaryUnder("OVERALL SUMMARY")
            g == [i \in {0, 1} |->
                     SummaryUnder(IF i = 0 THEN "USE FINANCIAL AID = 0"
                                  ELSE "USE FINANCIAL AID = 1")]
            rows == voucher_df[1].rows
        IN  /\ \A r \in DOMAIN rows : Cardinality({i \in {0, 1} : r \in RowsOfGroup(i)}) = 1
            /\ \A c \in Range(BaseColumns) :
                  /\ all[c].count = Len(rows)
                  /\ all[c].count = g[0][c].count + g[1][c].count
            /\ \A i \in {0, 1} :
                  /\ g[i]["id"].count = Cardinality(RowsOfGroup(i))
                  /\ g[i]["id"].count > 0 =>
                        /\ g[i]["use_fin_aid"].min = <<i * One>>
                        /\ g[i]["use_fin_aid"].max = <<i * One>>
                        /\ \E r \in RowsOfGroup(i) : g[i]["id"].min = <<rows[r]["id"]>>
                        /\ \E r \in RowsOfGroup(i) : g[i]["id"].max = <<rows[r]["id"]>>

\* the summaries of a table with a row in each group have been printed
C21_Witness ==
    /\ cell = "ate"
    /\ Summarized
    /\ SummaryUnder("OVERALL SUMMARY")["id"].count = 2
    /\ SummaryUnder("USE FINANCIAL AID = 0")["id"].count = 1
    /\ SummaryUnder("USE FINANCIAL AID = 1")["id"].count = 1

====
